---- MODULE Spec2Model ----
(***************************************************************************)
(* Model of pkg/dag/helper.go of hornet: the past-cone walk                *)
(* (TraverseApprovees / processStackApprovees), the future-cone walk       *)
(* (TraverseApprovers / processStackApprovers) and FindAllTails, which is  *)
(* TraverseApprovees with fixed callbacks.                                 *)
(*                                                                         *)
(* One action is one call of a step function (one iteration of the driving *)
(* loop).  Every store call and every callback invocation a step makes is  *)
(* appended to the history variable log, in the order the code makes them. *)
(*                                                                         *)
(* The tangle (who names whom as trunk and branch) is fixed by Init.  What *)
(* the store collaborator answers about a hash (is it stored, is it a      *)
(* solid entry point, is it a tail) is fixed the first time the code asks: *)
(* "unknown" means that the call has not asked yet, so that one behaviour  *)
(* of the model stands for every store that gives the same answers.        *)
(***************************************************************************)
EXTENDS Integers, Sequences, FiniteSets

\* Transaction hashes are 0..MaxId.
MaxId == 3
\* How many transactions the environment may delete from the store during a call.
MaxStoreChanges == 1

Ids == 0..MaxId
NoTx == 0 - 1

VARIABLES
    trunk,            \* trunk[h]: GetTrunkHash of transaction h
    branch,           \* branch[h]: GetBranchHash of transaction h
    isTail,           \* isTail[h]: what IsTail of transaction h answered
    store,            \* store[h]: what GetCachedTransactionOrNil(h) answers
    sep,              \* sep[h]: what SolidEntryPointsContain(h) answered
    op,               \* the exported function that was called
    startTxHash,
    skipStartTx,      \* FindAllTails argument
    callerForceRelease, \* FindAllTails argument forceRelease
    forceRelease,     \* forceRelease as received by the traversal
    traverseSolidEntryPoints,
    abortSignal,      \* TRUE once the abort channel is closed
    stack,            \* the list.List, front first
    visited,          \* map[string]bool of TraverseApprovees
    discovered,       \* map[string]struct{} of TraverseApprovers
    tails,            \* result map of FindAllTails
    pc,               \* "running" inside the driving loop, "done" after return
    err,              \* the error the call returned
    storeChanges,     \* deletions from the store since the call started
    log               \* history of store calls, callbacks and stack pushes

vars == <<trunk, branch, isTail, store, sep, op, startTxHash, skipStartTx,
          callerForceRelease, forceRelease, traverseSolidEntryPoints,
          abortSignal, stack, visited, discovered, tails, pc, err,
          storeChanges, log>>

inputs == <<trunk, branch, op, startTxHash, skipStartTx,
            callerForceRelease, forceRelease, traverseSolidEntryPoints>>

----------------------------------------------------------------------------
\* Error values.
Err(kind, h) == [kind |-> kind, tx |-> h]
NoErr == Err("nil", NoTx)
ErrOperationAborted == Err("ErrOperationAborted", NoTx)
ErrFindAllTailsFailed(h) == Err("ErrFindAllTailsFailed", h)
\* Variant of ErrTransactionNotFound: the failed resolution is no error.
ErrTransactionNotFoundIgnored(h) == NoErr

ErrTransactionNotFound(h) == Err("ErrTransactionNotFound", h)

\* History entries: a call ev about hash h that returned res, and the error
\* it returned.
EvErr(ev, h, res, e) == [ev |-> ev, tx |-> h, res |-> res, err |-> e]
Ev(ev, h, res) == EvErr(ev, h, res, NoErr)

\* A Go bool as a map value or an answer; "none" is an absent key of the
\* visited map, "unknown" an answer nobody asked for yet.
BoolVal(b) == IF b THEN "true" ELSE "false"
NotVisited == "none"
Unknown == "unknown"

ForceVal(f) == IF f THEN "force" ELSE "noforce"

\* The answers a collaborator can give about h, given what it answered before.
Answers(known, h) ==
    IF known[h] = Unknown THEN {"true", "false"} ELSE {known[h]}

----------------------------------------------------------------------------
\* The store collaborator (pkg/model/tangle), as the traversal consumes it.

\* tangle.GetCachedTransactionOrNil(h): "true" for a handle, "false" for nil.
GetCachedTransactionOrNil(h) == Answers(store, h)

\* tangle.SolidEntryPointsContain(h)
SolidEntryPointsContain(h) == Answers(sep, h)

\* cachedTx.GetTransaction().IsTail()
IsTail(h) == Answers(isTail, h)

\* tangle.GetApproverHashes(h, forceRelease): the approver index holds every
\* transaction that names h as its trunk or its branch.
GetApproverHashes(h) == {n \in Ids : trunk[n] = h \/ branch[n] = h}

----------------------------------------------------------------------------
\* Callbacks.  An outcome is what one invocation returns and does:
\*   res: "true"/"false" (Predicate), "nil" (Consumer, OnMissingApprovee),
\*        "err" when the callback returns an error; err: that error;
\*   tail: what IsTail answered to the callback (Unknown: not asked);
\*   log: the handle calls the callback itself makes.
Outcome(res, e, tl, lg) == [res |-> res, err |-> e, tail |-> tl, log |-> lg]

\* The outcome that stands for a callback the step does not invoke.
NotCalled == Outcome("none", NoErr, Unknown, <<>>)

\* Variant of FindAllTailsCondition: skipStartTx is not looked at.
FindAllTailsConditionNoSkip(h, tl) ==
    Outcome(IF tl = "true" THEN "false" ELSE "true", NoErr, tl,
            <<[ev |-> "cbRelease", tx |-> h, res |-> "force", err |-> NoErr]>>)

\* The condition closure of FindAllTails, tl being the answer of IsTail.
FindAllTailsCondition(h, tl) ==
    LET rel == <<Ev("cbRelease", h, ForceVal(TRUE))>> IN
    IF skipStartTx /\ startTxHash = h
    THEN Outcome("true", NoErr, Unknown, rel)
    ELSE IF tl = "true"
    THEN Outcome("false", NoErr, tl, rel)
    ELSE Outcome("true", NoErr, tl, rel)

\* tails[string(...GetTxHash())] = struct{}{} of that closure.
RecordTail(h, o) == IF o.tail = "true" THEN tails \cup {h} ELSE tails

\* The consumer closure of FindAllTails.
FindAllTailsConsumer(h) ==
    Outcome("nil", NoErr, Unknown, <<Ev("cbRelease", h, ForceVal(TRUE))>>)

\* Variant of FindAllTailsOnMissing: the missing approvee is not reported.
FindAllTailsOnMissingNil(h) == Outcome("nil", NoErr, Unknown, <<>>)

\* The onMissingApprovee closure of FindAllTails.
FindAllTailsOnMissing(h) ==
    Outcome("err", ErrFindAllTailsFailed(h), Unknown, <<>>)

\* A caller's callback may return anything its type allows.
CallerCallback(results, errKind, h) ==
    {Outcome(r, IF r = "err" THEN Err(errKind, h) ELSE NoErr, Unknown, <<>>) :
        r \in results}

ConditionOutcomes(h) ==
    IF op = "FindAllTails" THEN {FindAllTailsCondition(h, tl) : tl \in IsTail(h)}
    ELSE CallerCallback({"true", "false", "err"}, "errCondition", h)

ConsumerOutcomes(h) ==
    IF op = "FindAllTails" THEN {FindAllTailsConsumer(h)}
    ELSE CallerCallback({"nil", "err"}, "errConsumer", h)

OnMissingOutcomes(h) ==
    IF op = "FindAllTails" THEN {FindAllTailsOnMissing(h)}
    ELSE CallerCallback({"nil", "err"}, "errOnMissing", h)

\* condition(cachedTx.Retain()) / consumer(cachedTx.Retain()) as history.
CallWithRetain(name, h, o) ==
    <<Ev("retain", h, name), EvErr(name, h, o.res, o.err)>> \o o.log

\* Variant of Aborted: the channel is never looked at.
AbortedNever == FALSE

\* The select on abortSignal at the top of both step functions.
Aborted == abortSignal

\* Variant of DeferredRelease: the handle is not released.
DeferredReleaseMissing(h) == <<>>

\* The deferred cachedTx.Release(forceRelease).
DeferredRelease(h) == <<Ev("release", h, ForceVal(forceRelease))>>

----------------------------------------------------------------------------
\* processStackApprovees

\* Variant of CheckedBefore: the visited map is never consulted.
CheckedBeforeNever(vis, h) == FALSE

\* visited[string(currentTxHash)] has a key.
CheckedBefore(vis, h) == vis[h] # NotVisited

\* Variant of ApproveeHashes: the branch comes first.
ApproveeHashesBranchFirst(h) ==
    IF trunk[h] # branch[h] THEN <<branch[h], trunk[h]>> ELSE <<trunk[h]>>

\* Variant of ApproveeHashes: the branch is left out.
ApproveeHashesTrunkOnly(h) == <<trunk[h]>>

\* approveeHashes: the trunk, and the branch when it differs.
ApproveeHashes(h) ==
    IF trunk[h] # branch[h] THEN <<trunk[h], branch[h]>> ELSE <<trunk[h]>>

\* Variant of PushSolidEntryPoint: solid entry points are never pushed.
PushSolidEntryPointNever == FALSE

\* Variant of PushSolidEntryPoint: solid entry points are always pushed.
PushSolidEntryPointAlways == TRUE

\* What the scan does with an unvisited approvee that is a solid entry point
\* once onSolidEntryPoint returned: TRUE to push it.
PushSolidEntryPoint == traverseSolidEntryPoints

\* Variant of MarkNotTraversed: the approvee is left without an entry.
MarkNotTraversedNever(vis, h) == vis

\* visited[string(approveeHash)] = false for a solid entry point the scan
\* does not push.
MarkNotTraversed(vis, h) == [vis EXCEPT ![h] = BoolVal(FALSE)]

\* The loop over approveeHashes, sp[h] being the answer of
\* SolidEntryPointsContain(h).  push is the hash pushed to the front, or NoTx
\* when the loop ran to its end; asked holds the hashes sp was asked about.
RECURSIVE ScanApprovees(_, _, _, _, _)
ScanApprovees(hashes, sp, vis, evs, asked) ==
    IF hashes = <<>>
    THEN [visited |-> vis, push |-> NoTx, log |-> evs, asked |-> asked]
    ELSE LET approveeHash == Head(hashes) IN
        IF CheckedBefore(vis, approveeHash)
        THEN ScanApprovees(Tail(hashes), sp, vis, evs, asked)
        ELSE IF sp[approveeHash] # "true"
        THEN [visited |-> vis, push |-> approveeHash,
              log |-> Append(evs, Ev("push", approveeHash, "front")),
              asked |-> asked \cup {approveeHash}]
        ELSE LET evs2 == Append(evs, Ev("onSolidEntryPoint", approveeHash, "nil")) IN
            IF PushSolidEntryPoint
            THEN [visited |-> vis, push |-> approveeHash,
                  log |-> Append(evs2, Ev("push", approveeHash, "front")),
                  asked |-> asked \cup {approveeHash}]
            ELSE ScanApprovees(Tail(hashes), sp,
                               MarkNotTraversed(vis, approveeHash),
                               evs2, asked \cup {approveeHash})

\* Variant of PushFront: the hash is put at the back.
PushBack(st, h) == Append(st, h)

\* stack.PushFront(approveeHash)
PushFront(st, h) == <<h>> \o st

\* Variant of RememberCondition: the result is not kept.
RememberConditionNever(vis, h, traverse) == vis

\* visited[string(currentTxHash)] = traverse, after the condition returned.
RememberCondition(vis, h, traverse) == [vis EXCEPT ![h] = traverse]

\* One call of processStackApprovees.  tx is the answer of
\* GetCachedTransactionOrNil, sp the answers of SolidEntryPointsContain, and
\* c, k, m the outcomes of condition, consumer and onMissingApprovee, each
\* used only where the code makes the call.  The result holds the step's
\* return value (err), the state it leaves and what it asked and called.
StepApprovees(tx, sp, c, k, m) ==
    LET currentTxHash == Head(stack)
        same == [stack |-> stack, visited |-> visited, tails |-> tails,
                 log |-> <<>>, err |-> NoErr,
                 resolved |-> Unknown, asked |-> {}, tail |-> Unknown]
    IN
    IF Aborted THEN [same EXCEPT !.err = ErrOperationAborted]
    ELSE IF tx # "true"
    THEN [same EXCEPT
            !.stack = Tail(stack),
            !.visited = [visited EXCEPT ![currentTxHash] = BoolVal(FALSE)],
            !.log = <<Ev("resolve", currentTxHash, "nil"),
                      EvErr("onMissingApprovee", currentTxHash, m.res, m.err)>> \o m.log,
            !.err = m.err,
            !.resolved = tx]
    ELSE
    LET got == [same EXCEPT !.resolved = tx,
                            !.log = <<Ev("resolve", currentTxHash, "found")>>]
        checkedBefore == CheckedBefore(visited, currentTxHash)
        chk == IF checkedBefore THEN got
               ELSE [got EXCEPT
                       !.log = @ \o CallWithRetain("condition", currentTxHash, c),
                       !.tails = RecordTail(currentTxHash, c),
                       !.tail = c.tail]
        traverse == IF checkedBefore THEN visited[currentTxHash] ELSE c.res
        vis1 == IF checkedBefore THEN visited
                ELSE RememberCondition(visited, currentTxHash, traverse)
        release == DeferredRelease(currentTxHash)
    IN
    IF ~checkedBefore /\ c.res = "err"
    THEN [chk EXCEPT !.err = c.err, !.log = @ \o release]
    ELSE IF traverse # "true"
    THEN [chk EXCEPT !.stack = Tail(stack), !.visited = vis1,
                     !.log = @ \o release]
    ELSE
    LET scan == ScanApprovees(ApproveeHashes(currentTxHash), sp, vis1, chk.log, {}) IN
    IF scan.push # NoTx
    THEN [chk EXCEPT !.stack = PushFront(stack, scan.push),
                     !.visited = scan.visited,
                     !.log = scan.log \o release, !.asked = scan.asked]
    ELSE [chk EXCEPT !.stack = Tail(stack), !.visited = scan.visited,
                     !.log = scan.log
                              \o CallWithRetain("consumer", currentTxHash, k)
                              \o release,
                     !.asked = scan.asked,
                     !.err = k.err]

\* The answers SolidEntryPointsContain can give about the approvees of h.
SepAnswers(h) ==
    LET hs == {trunk[h], branch[h]} IN
    {sp \in [hs -> {"true", "false"}] : \A a \in hs : sp[a] \in SolidEntryPointsContain(a)}

\* What the collaborators have answered so far, after a step.
Learn(known, hs, answer) ==
    [h \in Ids |-> IF h \in hs /\ answer[h] # Unknown THEN answer[h] ELSE known[h]]

\* Variant of Return: the loop goes on after a step returned an error.
ReturnIgnoringError(r) ==
    /\ err' = NoErr
    /\ pc' = IF r.stack = <<>> THEN "done" ELSE "running"

\* The driving loop around one step: return the step's error, or nil once
\* the stack is empty.
Return(r) ==
    /\ err' = r.err
    /\ pc' = IF r.err # NoErr \/ r.stack = <<>> THEN "done" ELSE "running"

\* The answers and outcomes a step on the front hash cur can meet.  A call
\* the step does not reach has the single outcome NotCalled.
ResolveAnswers(cur) ==
    IF Aborted THEN {Unknown} ELSE GetCachedTransactionOrNil(cur)

OnMissingCalls(cur, tx) ==
    IF tx = "false" THEN OnMissingOutcomes(cur) ELSE {NotCalled}

ConditionCalls(cur, tx, checkedBefore) ==
    IF tx = "true" /\ ~checkedBefore THEN ConditionOutcomes(cur) ELSE {NotCalled}

ConsumerCalls(cur, tx, traverse) ==
    IF tx = "true" /\ traverse = "true" THEN ConsumerOutcomes(cur) ELSE {NotCalled}

ScanAnswers(cur, tx, traverse) ==
    IF tx = "true" /\ traverse = "true" THEN SepAnswers(cur)
    ELSE {[a \in {trunk[cur], branch[cur]} |-> Unknown]}

ProcessStackApprovees ==
    /\ pc = "running"
    /\ op \in {"TraverseApprovees", "FindAllTails"}
    /\ stack # <<>>
    /\ LET cur == Head(stack)
           checkedBefore == CheckedBefore(visited, cur)
       IN
       \E tx \in ResolveAnswers(cur) :
       \E m \in OnMissingCalls(cur, tx), c \in ConditionCalls(cur, tx, checkedBefore) :
       \E sp \in ScanAnswers(cur, tx, IF checkedBefore THEN visited[cur] ELSE c.res),
          k \in ConsumerCalls(cur, tx, IF checkedBefore THEN visited[cur] ELSE c.res) :
        LET r == StepApprovees(tx, sp, c, k, m) IN
        /\ stack' = r.stack
        /\ visited' = r.visited
        /\ tails' = r.tails
        /\ log' = log \o r.log
        /\ store' = Learn(store, {cur}, [h \in Ids |-> r.resolved])
        /\ sep' = Learn(sep, r.asked, sp)
        /\ isTail' = Learn(isTail, {cur}, [h \in Ids |-> r.tail])
        /\ Return(r)
    /\ UNCHANGED <<inputs, abortSignal, discovered, storeChanges>>

----------------------------------------------------------------------------
\* processStackApprovers

\* The orders in which GetApproverHashes may return the approvers of h.
ApproverOrders(h) ==
    LET S == GetApproverHashes(h) IN
    {o \in [1..Cardinality(S) -> S] : \A i, j \in DOMAIN o : o[i] = o[j] => i = j}

\* Variant of ApproverDiscovered: the discovered map is never consulted.
ApproverDiscoveredNever(disc, h) == FALSE

\* discovered[string(approverHash)] has a key.
ApproverDiscovered(disc, h) == h \in disc

\* Variant of EnqueueApprovers: the loop ends after its first push.
RECURSIVE EnqueueFirstApprover(_, _, _, _)
EnqueueFirstApprover(hashes, disc, q, evs) ==
    IF hashes = <<>> THEN [discovered |-> disc, stack |-> q, log |-> evs]
    ELSE IF Head(hashes) \in disc
    THEN EnqueueFirstApprover(Tail(hashes), disc, q, evs)
    ELSE [discovered |-> disc \cup {Head(hashes)},
          stack |-> Append(q, Head(hashes)),
          log |-> Append(evs, Ev("push", Head(hashes), "back"))]

\* The loop over the approver hashes: every approver that is not discovered
\* yet is marked discovered and pushed to the back.
RECURSIVE EnqueueApprovers(_, _, _, _)
EnqueueApprovers(hashes, disc, q, evs) ==
    IF hashes = <<>> THEN [discovered |-> disc, stack |-> q, log |-> evs]
    ELSE LET approverHash == Head(hashes) IN
        IF ApproverDiscovered(disc, approverHash)
        THEN EnqueueApprovers(Tail(hashes), disc, q, evs)
        ELSE EnqueueApprovers(Tail(hashes), disc \cup {approverHash},
                              Append(q, approverHash),
                              Append(evs, Ev("push", approverHash, "back")))

\* One call of processStackApprovers: tx is the answer of
\* GetCachedTransactionOrNil, c and k the outcomes of condition and consumer,
\* order the order in which the approver index lists the approvers.
StepApprovers(tx, c, k, order) ==
    LET currentTxHash == Head(stack)
        same == [stack |-> stack, discovered |-> discovered,
                 log |-> <<>>, err |-> NoErr, resolved |-> Unknown]
        popped == [same EXCEPT !.stack = Tail(stack), !.resolved = tx]
    IN
    IF Aborted THEN [same EXCEPT !.err = ErrOperationAborted]
    ELSE IF tx # "true"
    THEN [popped EXCEPT !.log = <<Ev("resolve", currentTxHash, "nil")>>,
                        !.err = ErrTransactionNotFound(currentTxHash)]
    ELSE
    LET lg1 == <<Ev("resolve", currentTxHash, "found")>>
                 \o CallWithRetain("condition", currentTxHash, c)
        lg2 == lg1 \o CallWithRetain("consumer", currentTxHash, k)
        release == DeferredRelease(currentTxHash)
    IN
    IF c.res = "err"
    THEN [popped EXCEPT !.log = lg1 \o release, !.err = c.err]
    ELSE IF c.res # "true"
    THEN [popped EXCEPT !.log = lg1 \o release]
    ELSE IF k.res = "err"
    THEN [popped EXCEPT !.log = lg2 \o release, !.err = k.err]
    ELSE LET enq == EnqueueApprovers(order, discovered, Tail(stack), lg2) IN
        [popped EXCEPT !.stack = enq.stack, !.discovered = enq.discovered,
                       !.log = enq.log \o release]

ApproverOrderings(cur, tx, c, k) ==
    IF tx = "true" /\ c.res = "true" /\ k.res = "nil" THEN ApproverOrders(cur)
    ELSE {<<>>}

ProcessStackApprovers ==
    /\ pc = "running"
    /\ op = "TraverseApprovers"
    /\ stack # <<>>
    /\ LET cur == Head(stack) IN
       \E tx \in ResolveAnswers(cur) :
       \E c \in ConditionCalls(cur, tx, FALSE) :
       \E k \in ConsumerCalls(cur, tx, c.res) :
       \E order \in ApproverOrderings(cur, tx, c, k) :
        LET r == StepApprovers(tx, c, k, order) IN
        /\ stack' = r.stack
        /\ discovered' = r.discovered
        /\ log' = log \o r.log
        /\ store' = Learn(store, {cur}, [h \in Ids |-> r.resolved])
        /\ Return(r)
    /\ UNCHANGED <<inputs, sep, isTail, abortSignal, visited, tails, storeChanges>>

----------------------------------------------------------------------------
\* The environment of a running call.

\* The caller closes the abort channel.  FindAllTails passes a nil channel,
\* which is never ready.
Abort ==
    /\ pc = "running"
    /\ op # "FindAllTails"
    /\ ~abortSignal
    /\ abortSignal' = TRUE
    /\ log' = Append(log, Ev("abort", NoTx, "nil"))
    /\ UNCHANGED <<inputs, store, sep, isTail, stack, visited, discovered,
                   tails, pc, err, storeChanges>>

\* Another goroutine (pruning) deletes a stored transaction between two
\* steps.  Only the step that resolves the hash next can see the deletion,
\* and a step resolves the front of the stack, so the model places the
\* deletion right before that step.  Deleting a transaction the call has not
\* resolved yet is the same as that transaction being absent from the start.
RemoveTx ==
    /\ pc = "running"
    /\ storeChanges < MaxStoreChanges
    /\ stack # <<>>
    /\ store[Head(stack)] = "true"
    /\ store' = [store EXCEPT ![Head(stack)] = "false"]
    /\ log' = Append(log, Ev("remove", Head(stack), "nil"))
    /\ storeChanges' = storeChanges + 1
    /\ UNCHANGED <<inputs, sep, isTail, abortSignal, stack, visited,
                   discovered, tails, pc, err>>

----------------------------------------------------------------------------
\* The tangles of the model: trunk and branch are drawn from References.
\* A transaction's hash is computed from its content, which holds the trunk
\* and branch hashes, so a transaction names only hashes that existed before
\* it: here smaller ones, and of those one of the two next smaller (possibly
\* the same one as trunk and as branch).  Hash 0 is below the oldest
\* transaction: nothing is stored under it.
References ==
    {r \in [Ids -> Ids] :
        \A h \in Ids : IF h = 0 THEN r[h] = 0 ELSE r[h] < h /\ h <= r[h] + 2}

\* Tangles with reference cycles, the hashes above 0 taken as a ring.  A
\* trunk names the transaction itself or the next one of the ring, a branch
\* the transaction itself or the one before: there are self-references,
\* pairs that name each other, and the cycle round the ring.  No hash
\* function yields such a tangle; the walks are checked on them all the same.
RingNext(h) == IF h = MaxId THEN 1 ELSE h + 1

RingPrev(h) == IF h = 1 THEN MaxId ELSE h - 1

CyclicTrunks ==
    {r \in [Ids -> Ids] :
        \A h \in Ids : IF h = 0 THEN r[h] = 0 ELSE r[h] \in {h, RingNext(h)}}

CyclicBranches ==
    {r \in [Ids -> Ids] :
        \A h \in Ids : IF h = 0 THEN r[h] = 0 ELSE r[h] \in {h, RingPrev(h)}}

\* The state at the first test of stack.Len() > 0 of the driving loop, sp
\* being what is known of the solid entry points when the call starts, and
\* trunks and branches the references the tangle is drawn from.
InitCallWith(o, start, sp, trunks, branches) ==
    /\ op = o
    /\ startTxHash = start
    /\ stack = <<start>>
    /\ visited = [h \in Ids |-> NotVisited]
    /\ discovered = IF o = "TraverseApprovers" THEN {start} ELSE {}
    /\ tails = {}
    /\ pc = "running"
    /\ err = NoErr
    /\ abortSignal = FALSE
    /\ storeChanges = 0
    /\ log = <<Ev("push", start, "front")>>
    /\ trunk \in trunks
    /\ branch \in branches
    /\ store = [h \in Ids |-> IF h = 0 THEN "false" ELSE Unknown]
    /\ sep = sp
    /\ isTail = [h \in Ids |-> Unknown]

\* A call about whose solid entry points nothing is fixed beforehand.
InitCall(o, start) ==
    InitCallWith(o, start, [h \in Ids |-> Unknown], References, References)

\* TraverseApprovees(startTxHash, ..., forceRelease, traverseSolidEntryPoints, abortSignal)
InitTraverseApprovees ==
    /\ skipStartTx = FALSE
    /\ callerForceRelease = FALSE
    /\ forceRelease \in BOOLEAN
    /\ traverseSolidEntryPoints \in BOOLEAN
    /\ \E start \in Ids : InitCall("TraverseApprovees", start)

\* TraverseApprovers(startTxHash, ..., forceRelease, abortSignal)
InitTraverseApprovers ==
    /\ skipStartTx = FALSE
    /\ callerForceRelease = FALSE
    /\ forceRelease \in BOOLEAN
    /\ traverseSolidEntryPoints = FALSE
    /\ \E start \in Ids : InitCall("TraverseApprovers", start)

\* FindAllTails(startTxHash, skipStartTx, forceRelease), which calls
\* TraverseApprovees(startTxHash, ..., true, false, nil).
InitFindAllTails ==
    /\ skipStartTx \in BOOLEAN
    /\ callerForceRelease \in BOOLEAN
    /\ forceRelease = TRUE
    /\ traverseSolidEntryPoints = FALSE
    /\ \E start \in Ids : InitCall("FindAllTails", start)

Init == InitTraverseApprovees \/ InitTraverseApprovers \/ InitFindAllTails

\* A call of one of the three functions on a store nobody deletes from.
Next == ProcessStackApprovees \/ ProcessStackApprovers \/ Abort

Spec == Init /\ [][Next]_vars

\* A past-cone walk while transactions are deleted from the store.  (The
\* future-cone walk resolves a hash once, when it takes it from the queue, so
\* a deletion is no more to it than a transaction that was never stored.)
InitPruning == InitTraverseApprovees \/ InitFindAllTails

NextPruning == ProcessStackApprovees \/ RemoveTx

SpecPruning == InitPruning /\ [][NextPruning]_vars

\* A past-cone walk that is started at a solid entry point: the snapshot's
\* solid entry points hold the start hash, whatever else they hold.
StartIsSolidEntryPoint(start) ==
    [h \in Ids |-> IF h = start THEN "true" ELSE Unknown]

InitAtSolidEntryPoint ==
    \E start \in Ids :
        \/ /\ skipStartTx = FALSE
           /\ callerForceRelease = FALSE
           /\ forceRelease \in BOOLEAN
           /\ traverseSolidEntryPoints \in BOOLEAN
           /\ InitCallWith("TraverseApprovees", start, StartIsSolidEntryPoint(start),
                        References, References)
        \/ /\ skipStartTx \in BOOLEAN
           /\ callerForceRelease \in BOOLEAN
           /\ forceRelease = TRUE
           /\ traverseSolidEntryPoints = FALSE
           /\ InitCallWith("FindAllTails", start, StartIsSolidEntryPoint(start),
                        References, References)

NextAtSolidEntryPoint == ProcessStackApprovees

SpecAtSolidEntryPoint == InitAtSolidEntryPoint /\ [][NextAtSolidEntryPoint]_vars

\* Both walks on tangles with cycles.  The driving loop calls the step
\* function again as long as the stack is not empty, and every store call
\* and callback returns: a step that can be taken is taken.
InitCyclic ==
    \E start \in Ids :
        /\ skipStartTx = FALSE
        /\ callerForceRelease = FALSE
        /\ forceRelease \in BOOLEAN
        /\ \/ /\ traverseSolidEntryPoints \in BOOLEAN
              /\ InitCallWith("TraverseApprovees", start,
                              [h \in Ids |-> Unknown],
                              CyclicTrunks, CyclicBranches)
           \/ /\ traverseSolidEntryPoints = FALSE
              /\ InitCallWith("TraverseApprovers", start,
                              [h \in Ids |-> Unknown],
                              CyclicTrunks, CyclicBranches)

NextCyclic == ProcessStackApprovees \/ ProcessStackApprovers

SpecCyclic ==
    InitCyclic /\ [][NextCyclic]_vars /\ WF_vars(NextCyclic)

----------------------------------------------------------------------------
\* Reading the history.

\* The positions of the calls ev about hash h.
Calls(ev, h) == {i \in DOMAIN log : log[i].ev = ev /\ log[i].tx = h}

Count(ev, h) == Cardinality(Calls(ev, h))

\* Some call ev about h returned res.
Returned(ev, h, res) == \E i \in Calls(ev, h) : log[i].res = res

\* The hashes some call ev was about.
Subjects(ev) == {h \in Ids : Calls(ev, h) # {}}

\* TraverseApprovees is running, called directly or by FindAllTails.
IsApproveesCall == op \in {"TraverseApprovees", "FindAllTails"}
IsApproversCall == op = "TraverseApprovers"

ReturnedNil == pc = "done" /\ err = NoErr

\* h names a as trunk or branch.
Names(h, a) == trunk[h] = a \/ branch[h] = a

----------------------------------------------------------------------------
\* C1: in one TraverseApprovees call the condition is invoked at most once
\* per hash and the consumer is invoked at most once per hash, whatever the
\* tangle, the start, the callbacks' results and the deletions from the store.
C1_AtMostOncePerHash ==
    IsApproveesCall =>
        \A h \in Ids : Count("condition", h) <= 1 /\ Count("consumer", h) <= 1

\* The call is over and consumed a transaction that two other consumed
\* transactions name.
C1_Witness ==
    /\ op = "TraverseApprovees" /\ ReturnedNil
    /\ \E h, a, b \in Ids :
        /\ a # b /\ h # a /\ h # b
        /\ Names(a, h) /\ Names(b, h)
        /\ Count("consumer", h) = 1 /\ Count("consumer", a) = 1
        /\ Count("consumer", b) = 1

\* C2: when the consumer is invoked on a transaction, each of its approvees
\* has been settled earlier in the call: the consumer was invoked on it, or
\* the condition returned false for it, or it was found missing, or it is a
\* solid entry point that is not traversed.  Hence no transaction is consumed
\* while an approvee that passed the condition still waits on the stack.
SettledBefore(a, i) ==
    \E j \in 1..(i - 1) :
        /\ log[j].tx = a
        /\ \/ log[j].ev = "consumer"
           \/ log[j].ev = "condition" /\ log[j].res = "false"
           \/ log[j].ev = "resolve" /\ log[j].res = "nil"
           \/ log[j].ev = "onSolidEntryPoint" /\ ~traverseSolidEntryPoints

C2_ApproveesSettledFirst ==
    IsApproveesCall =>
        \A i \in DOMAIN log :
            log[i].ev = "consumer" =>
                /\ SettledBefore(trunk[log[i].tx], i)
                /\ SettledBefore(branch[log[i].tx], i)

\* A transaction with two different approvees was consumed after both of
\* them were consumed.
C2_Witness ==
    /\ op = "TraverseApprovees"
    /\ \E i \in DOMAIN log :
        /\ log[i].ev = "consumer"
        /\ trunk[log[i].tx] # branch[log[i].tx]
        /\ \E j, k \in 1..(i - 1) :
            /\ log[j].ev = "consumer" /\ log[j].tx = trunk[log[i].tx]
            /\ log[k].ev = "consumer" /\ log[k].tx = branch[log[i].tx]

\* C3: when TraverseApprovees returns nil and nothing was deleted from the
\* store during the call, the consumer was invoked exactly once on every
\* transaction the condition returned true for (and on no other), and the
\* condition was evaluated on exactly the stored transactions that are
\* reachable from the start over approvee edges leaving transactions that
\* passed the condition, solid entry points not being entered unless
\* traverseSolidEntryPoints is set.

\* The hashes such a path reaches, stored or not.
RECURSIVE ApproveesReach(_)
ApproveesReach(R) ==
    LET more == {a \in Ids : \E n \in R :
                    /\ Returned("condition", n, "true")
                    /\ Names(n, a)
                    /\ (traverseSolidEntryPoints \/ sep[a] # "true")}
    IN IF more \subseteq R THEN R ELSE ApproveesReach(R \cup more)

C3_ApproveesComplete ==
    (IsApproveesCall /\ ReturnedNil /\ storeChanges = 0) =>
        LET R == ApproveesReach({startTxHash}) IN
        /\ \A h \in R : store[h] # Unknown
        /\ Subjects("condition") = {h \in R : store[h] = "true"}
        /\ \A h \in Ids :
            Count("consumer", h) = IF Returned("condition", h, "true") THEN 1 ELSE 0

\* A call returned nil after it consumed two transactions and met a
\* transaction the condition excluded and a missing one.
C3_Witness ==
    /\ op = "TraverseApprovees" /\ ReturnedNil /\ storeChanges = 0
    /\ Cardinality(Subjects("consumer")) >= 2
    /\ \E h \in Ids : Returned("condition", h, "false")
    /\ \E h \in Ids : Returned("resolve", h, "nil")

\* C4: in one TraverseApprovers call every hash is put on the queue at most
\* once, the start included, also when it approves several consumed
\* transactions; so the condition and the consumer are invoked at most once
\* per hash.
C4_EnqueuedOnce ==
    IsApproversCall =>
        \A h \in Ids :
            /\ Count("push", h) <= 1
            /\ Count("condition", h) <= 1
            /\ Count("consumer", h) <= 1

\* A transaction that approves two consumed transactions was enqueued once
\* and consumed.
C4_Witness ==
    /\ IsApproversCall /\ ReturnedNil
    /\ \E h, a, b \in Ids :
        /\ a # b /\ Names(h, a) /\ Names(h, b)
        /\ Returned("consumer", a, "nil") /\ Returned("consumer", b, "nil")
        /\ Count("push", h) = 1 /\ Count("consumer", h) = 1

\* C5: when TraverseApprovers returns nil, the hashes that were enqueued are
\* exactly those reachable from the start over approver edges leaving
\* transactions that passed the condition; each of them was evaluated, and
\* the consumed ones are exactly those among them that passed the condition.
\* A transaction that fails the condition is not consumed and brings none of
\* its approvers into the queue.
RECURSIVE ApproversReach(_)
ApproversReach(R) ==
    LET more == {m \in Ids : \E n \in R :
                    Returned("condition", n, "true") /\ Names(m, n)}
    IN IF more \subseteq R THEN R ELSE ApproversReach(R \cup more)

C5_ApproversComplete ==
    (IsApproversCall /\ ReturnedNil) =>
        LET R == ApproversReach({startTxHash}) IN
        /\ Subjects("push") = R
        /\ Subjects("condition") = R
        /\ Subjects("consumer") = {h \in R : Returned("condition", h, "true")}

\* A call returned nil after it consumed the start and met a transaction
\* that failed the condition and has an approver that was never enqueued.
C5_Witness ==
    /\ IsApproversCall /\ ReturnedNil
    /\ Count("consumer", startTxHash) = 1
    /\ \E h, m \in Ids :
        /\ Returned("condition", h, "false")
        /\ Names(m, h)
        /\ Count("push", m) = 0

\* C6: when FindAllTails returns nil, the returned set is exactly the set of
\* tail transactions reachable from the start over approvee edges through
\* non-tail transactions only.  With skipStartTx false and a tail start the
\* result is {start} and nothing behind the start is looked at; with
\* skipStartTx true the start is not recorded and is traversed like a
\* non-tail.
\*
\* An answer that is still Unknown when the call has returned is one the call
\* never asked for: the state then stands for every store that answers the
\* asked questions alike, among them stores where this hash is a stored tail
\* and stores where it is not.  The returned set is the claimed one in all of
\* them only if every hash of the claimed reach has its answers fixed.

\* The start when skipStartTx is set: never a tail to FindAllTails.
SkippedStart(h) == skipStartTx /\ h = startTxHash

\* h is traversed: stored, and not stopped at as a tail.
TraversedThrough(h) ==
    store[h] = "true" /\ (SkippedStart(h) \/ isTail[h] = "false")

\* What the call knows about h settles whether h is a tail to record.
TailDetermined(h) ==
    /\ store[h] # Unknown
    /\ store[h] = "true" => (SkippedStart(h) \/ isTail[h] # Unknown)

RecordedTail(h) == store[h] = "true" /\ ~SkippedStart(h) /\ isTail[h] = "true"

\* The reach of the claim as stated: over every approvee edge.
RECURSIVE TailReachAll(_)
TailReachAll(R) ==
    LET more == {a \in Ids : \E n \in R : TraversedThrough(n) /\ Names(n, a)}
    IN IF more \subseteq R THEN R ELSE TailReachAll(R \cup more)

\* C6 as stated.
C6_TailsOverAllEdges ==
    (op = "FindAllTails" /\ ReturnedNil) =>
        LET R == TailReachAll({startTxHash}) IN
        /\ \A h \in R : TailDetermined(h)
        /\ tails = {h \in R : RecordedTail(h)}

\* The reach the code walks: an approvee that is a solid entry point is not
\* entered.  (The start is pushed without a look at the solid entry points.)
RECURSIVE TailReach(_)
TailReach(R) ==
    LET more == {a \in Ids : \E n \in R :
                    TraversedThrough(n) /\ Names(n, a) /\ sep[a] # "true"}
    IN IF more \subseteq R THEN R ELSE TailReach(R \cup more)

\* C6 as amended: the returned set is exactly the set of tail transactions
\* reachable from the start over approvee edges through non-tail
\* transactions, without entering approvees that are solid entry points;
\* the statements about the start hold as stated.
C6_TailsUpToSolidEntryPoints ==
    (op = "FindAllTails" /\ ReturnedNil) =>
        LET R == TailReach({startTxHash}) IN
        /\ \A h \in R : TailDetermined(h)
        /\ \A n \in R : TraversedThrough(n) =>
                            sep[trunk[n]] # Unknown /\ sep[branch[n]] # Unknown
        /\ tails = {h \in R : RecordedTail(h)}
        /\ (~skipStartTx /\ isTail[startTxHash] = "true") =>
                tails = {startTxHash} /\ Subjects("resolve") = {startTxHash}
        /\ skipStartTx => startTxHash \notin tails

\* FindAllTails with skipStartTx went past the start, recorded a deeper tail
\* and left an approvee of the start alone that is a solid entry point.
C6_Witness ==
    /\ op = "FindAllTails" /\ ReturnedNil /\ skipStartTx
    /\ tails # {}
    /\ \E a \in Ids : sep[a] = "true" /\ Names(startTxHash, a)

\* C7: if FindAllTails meets a hash that cannot be resolved, it returns an
\* ErrFindAllTailsFailed error that names exactly that hash, and after the
\* failed resolution there is no condition or consumer invocation and no
\* store resolution.
C7_MissingEndsTailSearch ==
    op = "FindAllTails" =>
        \A i \in DOMAIN log :
            (log[i].ev = "resolve" /\ log[i].res = "nil") =>
                /\ pc = "done"
                /\ err = ErrFindAllTailsFailed(log[i].tx)
                /\ \A j \in DOMAIN log :
                    j > i => log[j].ev \notin {"condition", "consumer", "resolve"}

\* The tail search failed on an approvee after it had evaluated the start.
C7_Witness ==
    /\ op = "FindAllTails" /\ pc = "done"
    /\ err.kind = "ErrFindAllTailsFailed" /\ err.tx # startTxHash
    /\ Count("condition", startTxHash) = 1
    /\ Returned("resolve", err.tx, "nil")

\* C8: both traversals test the abort signal first in every step.  Once the
\* signal is given, no later step resolves a hash or invokes a callback, and
\* the call returns ErrOperationAborted; given before the first step, the
\* call returns it with no resolution and no callback invocation at all.
EngineCalls ==
    {"resolve", "condition", "consumer", "onMissingApprovee", "onSolidEntryPoint"}

C9_FirstErrorIsReturned ==
    \A i \in DOMAIN log :
        (log[i].ev \in {"condition", "consumer", "onMissingApprovee"}
            /\ log[i].res = "err") =>
            /\ pc = "done"
            /\ err = log[i].err
            /\ \A j \in DOMAIN log : j > i => log[j].ev \notin EngineCalls

\* A consumer returned an error after another transaction had been consumed.
C9_Witness ==
    /\ pc = "done" /\ err.kind = "errConsumer"
    /\ \E h \in Ids : Returned("consumer", h, "nil")

\* C10: handle accounting is balanced whenever a step has returned, on every
\* exit path.  Each successful resolution is followed, before the next
\* resolution, by one release of that handle by the step; each callback
\* invocation is handed a handle retained just for it; and in FindAllTails,
\* whose callbacks release what they are handed, acquisitions plus retains
\* equal releases for every hash.
ResolvedFound(h) == {i \in Calls("resolve", h) : log[i].res = "found"}

C10_HandlesBalanced ==
    /\ \A h \in Ids : Cardinality(ResolvedFound(h)) = Count("release", h)
    /\ \A i \in DOMAIN log :
        (log[i].ev = "resolve" /\ log[i].res = "found") =>
            \E j \in DOMAIN log :
                /\ j > i /\ log[j].ev = "release" /\ log[j].tx = log[i].tx
                /\ \A k \in (i + 1)..(j - 1) : log[k].ev \notin {"resolve", "release"}
    /\ \A i \in DOMAIN log :
        log[i].ev \in {"condition", "consumer"} =>
            /\ i > 1
            /\ log[i - 1] = Ev("retain", log[i].tx, log[i].ev)
    /\ \A h \in Ids : Count("retain", h) = Count("condition", h) + Count("consumer", h)
    /\ op = "FindAllTails" =>
        \A h \in Ids :
            Cardinality(ResolvedFound(h)) + Count("retain", h)
                = Count("release", h) + Count("cbRelease", h)

\* A step left through the return of a consumer error, after steps that
\* left through push-and-return and through the normal return.
C10_Witness ==
    /\ pc = "done" /\ err.kind = "errConsumer"
    /\ \E h \in Ids : Returned("consumer", h, "nil")
    /\ \E h \in Ids : Returned("condition", h, "false")
    /\ \E i \in DOMAIN log : i > 1 /\ log[i].ev = "push"

\* C11: in TraverseApprovers a hash taken from the queue that cannot be
\* resolved makes the call return a transaction-not-found error for that hash
\* at once: neither condition nor consumer is invoked for it, no missing
\* callback is invoked at all, and nothing is resolved or called afterwards,
\* whatever is still queued.
C11_ApproverNotFoundIsHardError ==
    IsApproversCall =>
        /\ \A h \in Ids : Count("onMissingApprovee", h) = 0
        /\ \A i \in DOMAIN log :
            (log[i].ev = "resolve" /\ log[i].res = "nil") =>
                /\ pc = "done"
                /\ err = ErrTransactionNotFound(log[i].tx)
                /\ Count("condition", log[i].tx) = 0
                /\ Count("consumer", log[i].tx) = 0
                /\ \A j \in DOMAIN log :
                    j > i => log[j].ev \notin EngineCalls \cup {"retain", "push"}

\* An enqueued approver could not be resolved while another hash was still
\* queued behind it.
C11_Witness ==
    /\ IsApproversCall /\ pc = "done"
    /\ err.kind = "ErrTransactionNotFound" /\ err.tx # startTxHash
    /\ Count("push", err.tx) = 1
    /\ stack # <<>>

\* C12: in TraverseApprovees without traverseSolidEntryPoints an approvee
\* the scan found to be a solid entry point is never pushed, never resolved
\* and never handed to condition, consumer or onMissingApprovee, and its
\* visited entry is false.  With traverseSolidEntryPoints the scan pushes it
\* right after onSolidEntryPoint, and it is then processed like any other
\* hash: when the call returns nil it was resolved, and if found evaluated
\* once, and if it passed the condition consumed once with both its approvees
\* visited.
C12_SolidEntryPointApprovee ==
    op = "TraverseApprovees" =>
        \A a \in Ids : sep[a] = "true" =>
            IF ~traverseSolidEntryPoints
            THEN /\ Count("push", a) = 0
                 /\ Count("resolve", a) = 0
                 /\ Count("condition", a) = 0
                 /\ Count("consumer", a) = 0
                 /\ Count("onMissingApprovee", a) = 0
                 /\ visited[a] = BoolVal(FALSE)
            ELSE /\ \A i \in Calls("onSolidEntryPoint", a) :
                    i < Len(log) /\ log[i + 1] = Ev("push", a, "front")
                 /\ ReturnedNil =>
                    /\ Count("resolve", a) >= 1
                    /\ Returned("resolve", a, "found") => Count("condition", a) = 1
                    /\ Returned("condition", a, "true") =>
                        /\ Count("consumer", a) = 1
                        /\ visited[trunk[a]] # NotVisited
                        /\ visited[branch[a]] # NotVisited

\* One call left a solid entry point alone that two transactions name.
C12_Witness ==
    /\ op = "TraverseApprovees" /\ ReturnedNil /\ ~traverseSolidEntryPoints
    /\ \E a, n, m \in Ids :
        /\ n # m /\ Names(n, a) /\ Names(m, a)
        /\ sep[a] = "true"
        /\ Count("consumer", n) = 1 /\ Count("consumer", m) = 1

\* One call walked through a solid entry point and consumed it.
C12_WitnessTraversed ==
    /\ op = "TraverseApprovees" /\ ReturnedNil /\ traverseSolidEntryPoints
    /\ \E a \in Ids : sep[a] = "true" /\ Count("consumer", a) = 1

\* C13: FindAllTails never records a solid entry point in its result and
\* never traverses past one (evaluates it and goes on to its approvees),
\* whatever skipStartTx is and wherever the solid entry point occurs, the
\* start included.
C13_SolidEntryPointsIgnored ==
    op = "FindAllTails" =>
        \A h \in Ids : sep[h] = "true" =>
            /\ h \notin tails
            /\ ~Returned("condition", h, "true")

\* C14: during TraverseApprovees onSolidEntryPoint is called for the start
\* when the start is a solid entry point, as it is for an approvee: a call
\* that returned nil has reported its start.
C14_StartSolidEntryPointReported ==
    (op = "TraverseApprovees" /\ ReturnedNil /\ sep[startTxHash] = "true") =>
        Count("onSolidEntryPoint", startTxHash) >= 1

\* C15: in TraverseApprovees onSolidEntryPoint is invoked for every hash the
\* scan of a transaction that passed the condition finds to be a solid entry
\* point, and at most once per hash in one call, also when several
\* transactions name the same solid entry point and for both values of
\* traverseSolidEntryPoints.  Every invocation is for an approvee of a
\* transaction that passed the condition.
C15_SolidEntryPointReportedOnce ==
    op = "TraverseApprovees" =>
        \A a \in Ids :
            /\ Count("onSolidEntryPoint", a) <= 1
            /\ sep[a] = "true" => Count("onSolidEntryPoint", a) = 1
            /\ \A i \in Calls("onSolidEntryPoint", a) :
                /\ sep[a] = "true"
                /\ \E n \in Ids, j \in 1..(i - 1) :
                    /\ Names(n, a)
                    /\ log[j] = Ev("condition", n, "true")

\* Two transactions that passed the condition name the same solid entry
\* point, and the call returned nil.
C15_Witness ==
    /\ op = "TraverseApprovees" /\ ReturnedNil
    /\ \E a, n, m \in Ids :
        /\ n # m /\ Names(n, a) /\ Names(m, a)
        /\ Returned("condition", n, "true") /\ Returned("condition", m, "true")
        /\ Count("onSolidEntryPoint", a) = 1

\* C16: the caller's forceRelease decides the force flag of the releases: in
\* FindAllTails every release of a handle during the call, by the step or by
\* a callback, is forced exactly when the caller passed forceRelease = true.
C16_ReleasesFollowCaller ==
    op = "FindAllTails" =>
        \A i \in DOMAIN log :
            log[i].ev \in {"release", "cbRelease"} =>
                log[i].res = ForceVal(callerForceRelease)

\* C17: in TraverseApprovees a visited entry, once it exists, keeps its value
\* for the rest of the call, also when the transaction is deleted from the
\* store between two steps while it is on the stack: no step changes an
\* existing entry, so a transaction that passed the condition is never
\* re-marked false and dropped unconsumed.
C17_VisitedEntryIsFinal ==
    [][op = "TraverseApprovees" =>
        \A h \in Ids : visited[h] # NotVisited => visited'[h] = visited[h]]_vars

\* C18: TraverseApprovees explores the trunk before the branch.  For a
\* transaction n that passed the condition and whose trunk and branch differ,
\* the branch is not pushed, resolved or evaluated until the trunk has been
\* removed from the stack (consumed, excluded, missing or skipped as a solid
\* entry point), unless the branch is visited as part of the trunk's past
\* cone, that is while the trunk is on the stack.

\* Before history position j the trunk t was settled or was put on the stack.
TrunkExploredBefore(t, j) ==
    \/ SettledBefore(t, j)
    \/ \E k \in 1..(j - 1) : log[k] = Ev("push", t, "front")

\* The history positions from position i on at which the branch of n is
\* pushed, resolved or evaluated before the trunk of n was explored.
BranchBeforeTrunk(n, i) ==
    {j \in DOMAIN log :
        /\ j >= i
        /\ log[j].tx = branch[n]
        /\ log[j].ev \in {"push", "resolve", "condition"}
        /\ ~TrunkExploredBefore(trunk[n], j)}

\* C18 as stated: over the whole call.
C18_TrunkBeforeBranchAlways ==
    op = "TraverseApprovees" =>
        \A n \in Ids :
            (Returned("condition", n, "true") /\ trunk[n] # branch[n]) =>
                BranchBeforeTrunk(n, 1) = {}

\* C18 as amended: from the evaluation of n on.  A branch that another
\* transaction of the walk led to before n was evaluated may have been
\* visited before the trunk of n.
C18_TrunkBeforeBranch ==
    op = "TraverseApprovees" =>
        \A i \in DOMAIN log :
            (log[i] = Ev("condition", log[i].tx, "true")
                /\ trunk[log[i].tx] # branch[log[i].tx]) =>
                BranchBeforeTrunk(log[i].tx, i) = {}

\* A transaction was consumed whose trunk and branch differ and were both
\* pushed after its evaluation, the trunk consumed before the branch was
\* pushed.
C18_Witness ==
    /\ op = "TraverseApprovees" /\ ReturnedNil
    /\ \E i, j, k, l \in DOMAIN log :
        /\ i < j /\ j < k /\ k < l
        /\ log[i] = Ev("condition", log[i].tx, "true")
        /\ trunk[log[i].tx] # branch[log[i].tx]
        /\ log[j] = Ev("push", trunk[log[i].tx], "front")
        /\ log[k] = Ev("consumer", trunk[log[i].tx], "nil")
        /\ log[l] = Ev("push", branch[log[i].tx], "front")

\* C19: TraverseApprovees and TraverseApprovers terminate on every finite
\* tangle, with reference cycles and self-references too, when every
\* callback and store call returns.  No hash is pushed twice; a hash is
\* resolved at most once by TraverseApprovers and at most once more than it
\* has approvees by TraverseApprovees, which bounds the steps by the number
\* of hashes and edges; and the call returns.
StepBound(h) ==
    IF IsApproversCall THEN 1 ELSE 1 + Cardinality({trunk[h], branch[h]})

C19_Terminates ==
    /\ [](\A h \in Ids : Count("push", h) <= 1 /\ Count("resolve", h) <= StepBound(h))
    /\ <>(pc = "done")

\* A walk over a cycle has returned nil: two transactions that name each
\* other, or one that names itself, were consumed.
C19_Witness ==
    /\ ReturnedNil
    /\ \E h, n \in Ids :
        /\ Names(h, n) /\ Names(n, h)
        /\ Count("consumer", h) = 1 /\ Count("consumer", n) = 1

\* C20: between the steps of TraverseApprovees no hash is twice on the
\* stack; the bottom element is the start; every element but the front has
\* the visited entry true and has not been handed to the consumer (nor has
\* the front); and every element is the trunk or the branch of the element
\* directly below it, so that the stack is a path of the tangle that begins
\* at the start.  (The front is stack[1], the bottom stack[Len(stack)].)
C20_StackIsPath ==
    IsApproveesCall =>
        /\ \A i, j \in DOMAIN stack : stack[i] = stack[j] => i = j
        /\ stack # <<>> => stack[Len(stack)] = startTxHash
        /\ \A i \in DOMAIN stack :
            /\ Count("consumer", stack[i]) = 0
            /\ i > 1 => visited[stack[i]] = BoolVal(TRUE)
            /\ i < Len(stack) => Names(stack[i + 1], stack[i])

\* The walk is three transactions deep and its front is not evaluated yet.
C20_Witness ==
    /\ op = "TraverseApprovees" /\ pc = "running"
    /\ Len(stack) >= 3
    /\ visited[Head(stack)] = NotVisited

====
